---- MODULE Spec2Model ----
(***************************************************************************)
(* Book generation pipeline of app.py: six stage functions driven by a     *)
(* LangGraph StateGraph whose conditional edges all go through router,     *)
(* with an in-memory checkpointer, wrapped by main().                      *)
(*                                                                         *)
(* Python values are modelled as follows.  A dict is a function whose      *)
(* DOMAIN is the set of keys that are present.  A str that the code        *)
(* inspects character by character (theme, title, file names) is a         *)
(* sequence of one-character strings; other strs are atomic.  A value      *)
(* returned by json.loads is a record [type, val] carrying its Python      *)
(* type.  A model response is a sequence of tokens: code fences, white     *)
(* space, prose and JSON documents.                                        *)
(***************************************************************************)
EXTENDS Integers, Sequences, FiniteSets, TLC

\* Longest chapter list the generator returns.
MaxOutline == 6

\* Most entries of one generated list whose chapter_number is off.
MaxDrifted == 2

\* Most stage executions of one run that are explored.
MaxSteps == 16

(***************************************************************************)
(* dict helpers                                                            *)
(***************************************************************************)
EmptyDict == <<>>

\* d.get(k, default)
Get(d, k, default) == IF k \in DOMAIN d THEN d[k] ELSE default

\* The engine's merge of a node's partial update into the channel values.
Merge(s, u) == [k \in (DOMAIN s) \cup (DOMAIN u) |-> IF k \in DOMAIN u THEN u[k] ELSE s[k]]

(***************************************************************************)
(* Python objects as json.loads returns them                               *)
(***************************************************************************)
PyDict(d) == [type |-> "dict", val |-> d]
PyList(l) == [type |-> "list", val |-> l]
PyInt(n)  == [type |-> "int", val |-> n]
PyNone    == [type |-> "NoneType", val |-> 0]

JsonTypes == {"dict", "list", "int", "NoneType"}

(***************************************************************************)
(* Response texts                                                          *)
(***************************************************************************)
\* Three backquotes followed by json, and three backquotes alone.
FenceJson == [type |-> "fence_json", val |-> 0]
Fence     == [type |-> "fence", val |-> 0]
Space     == [type |-> "whitespace", val |-> 0]
Prose     == [type |-> "prose", val |-> 0]

\* The shapes in which a model hands back a document d.
Wrappings(d) ==
    { <<d>>,
      <<Space, d, Space>>,
      <<FenceJson, Space, d, Space, Fence>>,
      <<Fence, Space, d, Space, Fence>>,
      <<FenceJson, Space, d, Space, Fence, Space>>,
      <<Prose, d>> }

\* Texts that hold no document at all.
PlainTexts == { <<>>, <<Prose>>, <<FenceJson, Prose, Fence>> }

startswith(text, tok) == Len(text) > 0 /\ text[1].type = tok.type
endswith(text, tok) == Len(text) > 0 /\ text[Len(text)].type = tok.type

\* text[n:] for a prefix of one token, text[:-3] for a suffix of one token
DropFirst(text) == SubSeq(text, 2, Len(text))
DropLast(text) == SubSeq(text, 1, Len(text) - 1)

IsSpace(tok) == tok.type = Space.type

\* json.loads: surrounding white space is skipped, exactly one document
\* must remain; anything else is a JSONDecodeError.
JSONDecodeError == [type |-> "JSONDecodeError", val |-> 0]

json_loads(text) ==
    LET core == SelectSeq(text, LAMBDA tok : ~IsSpace(tok))
    IN IF Len(core) = 1 /\ core[1].type \in JsonTypes THEN core[1] ELSE JSONDecodeError

StripFence(text) ==
    IF startswith(text, FenceJson) \/ startswith(text, Fence)
    THEN LET rest == DropFirst(text)
         IN IF endswith(rest, Fence) THEN DropLast(rest) ELSE rest
    ELSE text

\* The decoding without the except clause: the error comes back in place
\* of the fallback.
safe_json_parse_NoFallback(response_text, fallback) == json_loads(StripFence(response_text))

safe_json_parse(response_text, fallback) ==
    LET parsed == json_loads(StripFence(response_text))
    IN IF parsed.type = JSONDecodeError.type THEN fallback ELSE parsed

(***************************************************************************)
(* Outcome of a stage call: the partial update it returns, or the          *)
(* exception it raises.                                                    *)
(***************************************************************************)
Return(updates) == [exc |-> "none", updates |-> updates]
Raise(e) == [exc |-> e, updates |-> EmptyDict]

\* What model.generate_content(prompt) followed by response.text gives is
\* a record [failed, text]: the remote call raised, or it returned text.

(***************************************************************************)
(* get_book_info                                                           *)
(***************************************************************************)
DefaultTheme == <<"U", "m", " ", "t", "e", "m", "a", " ", "g", "e", "n", "e", "r", "i", "c", "o">>
DefaultGenre == "Ficcao"
DefaultAudience == "Adultos"

\* f"Livro sobre {theme}"
LivroSobre(theme) == <<"L", "i", "v", "r", "o", " ", "s", "o", "b", "r", "e", " ">> \o theme

\* info.get("title", ...): only a dict has the method.
info_get_title(info, default) ==
    IF info.type = "dict" THEN Return(Get(info.val, "title", default)) ELSE Raise("AttributeError")

get_book_info(state, response) ==
    LET theme == Get(state, "theme", DefaultTheme)
        genre == Get(state, "genre", DefaultGenre)
        target_audience == Get(state, "target_audience", DefaultAudience)
    IN IF response.failed THEN Raise("GenerationError")
       ELSE LET info == safe_json_parse(response.text, PyDict([title |-> LivroSobre(theme)]))
                title == info_get_title(info, LivroSobre(theme))
            IN IF title.exc # "none" THEN Raise(title.exc)
               ELSE Return([theme |-> theme, genre |-> genre,
                            target_audience |-> target_audience,
                            title |-> title.updates,
                            status |-> "book_info_collected"])

(***************************************************************************)
(* create_outline                                                          *)
(***************************************************************************)
\* A chapter descriptor.  Titles and descriptions are abstracted to a tag
\* and the position at which the text was produced.
Item(n, tag, i) ==
    PyDict([chapter_number |-> n, chapter_title |-> <<tag, i>>, chapter_description |-> <<tag, i>>])

\* The one-entry outline used when the response cannot be decoded.
FallbackOutline == PyList(<<Item(1, "Introducao", 1)>>)

\* The entry appended for position i.
Placeholder(i) == Item(i, "Capitulo", i)

MinChapters == 5

\* for i in range(len(outline_data) + 1, 6): outline_data.append(...)
pad_outline(items) ==
    IF Len(items) < MinChapters
    THEN items \o [j \in 1..(MinChapters - Len(items)) |-> Placeholder(Len(items) + j)]
    ELSE items

ItemKeys == {"chapter_number", "chapter_title", "chapter_description"}

\* The position whose item a dict comprehension keeps for key k: the last.
LastWith(items, k) ==
    CHOOSE i \in 1..Len(items) :
        /\ items[i].val.chapter_number = k
        /\ \A j \in (i + 1)..Len(items) : items[j].val.chapter_number # k

\* {item["chapter_number"]: {"title": ..., "description": ..., "content": ""} for item in outline_data}
build_chapters(items) ==
    [k \in {items[i].val.chapter_number : i \in 1..Len(items)} |->
        [title |-> items[LastWith(items, k)].val.chapter_title,
         description |-> items[LastWith(items, k)].val.chapter_description,
         content |-> ""]]

\* The exception the comprehension raises on the first item it cannot
\* read, "none" when every item is a dict with the three keys.
items_error(items) ==
    LET bad == {i \in 1..Len(items) : items[i].type # "dict" \/ ~(ItemKeys \subseteq DOMAIN items[i].val)}
    IN IF bad = {} THEN "none"
       ELSE LET first == CHOOSE i \in bad : \A j \in bad : i <= j
            IN IF items[first].type # "dict" THEN "TypeError" ELSE "KeyError"

create_outline(state, response) ==
    IF response.failed THEN Raise("GenerationError")
    ELSE LET outline_data == safe_json_parse(response.text, FallbackOutline)
         IN CASE outline_data.type \in {"int", "NoneType"} -> Raise("TypeError")
              [] outline_data.type = "dict" ->
                    IF Cardinality(DOMAIN outline_data.val) < MinChapters
                    THEN Raise("AttributeError")
                    ELSE Raise("TypeError")
              [] outline_data.type = "list" ->
                    LET items == pad_outline(outline_data.val)
                    IN IF items_error(items) # "none" THEN Raise(items_error(items))
                       ELSE Return([outline |-> items,
                                    chapters |-> build_chapters(items),
                                    current_chapter |-> 1,
                                    status |-> "outline_created"])

(***************************************************************************)
(* write_chapter, review_and_edit, export_feedback, export_book            *)
(***************************************************************************)
\* len(state["chapters"])
len_chapters(state) == Cardinality(DOMAIN state.chapters)

\* The cursor moved by two.
next_chapter_Skip(current) == current + 2

\* The cursor left where it was.
next_chapter_Stay(current) == current

\* updates["current_chapter"] = current + 1
next_chapter(current) == current + 1

\* The comparison with < in place of <=.
chapter_status_Strict(next, n) == IF next < n THEN "chapter_written" ELSE "all_chapters_written"

\* "chapter_written" if updates["current_chapter"] <= len(state["chapters"]) else "all_chapters_written"
chapter_status(next, n) == IF next <= n THEN "chapter_written" ELSE "all_chapters_written"

SummaryLen == 500

\* text[:n], kept as the text and the length it is cut to.
Slice(text, n) == [text |-> text, upto |-> n]

\* prev_content when no summary is put into the prompt.
NoPrev == [chapter |-> 0, text |-> Slice("", SummaryLen)]

\* The summary taken from the chapter under the cursor.
prev_content_Current(state) ==
    LET current == state.current_chapter
    IN IF current > 1 /\ Get(state.chapters, current, [content |-> ""]).content # ""
       THEN [chapter |-> current, text |-> Slice(state.chapters[current].content, SummaryLen)]
       ELSE NoPrev

\* prev_content of the prompt: the chapter it summarises and the first 500
\* characters of that chapter's content, when current > 1 and the content
\* of chapter current - 1 is non-empty.
prev_content(state) ==
    LET current == state.current_chapter
    IN IF current > 1 /\ Get(state.chapters, current - 1, [content |-> ""]).content # ""
       THEN [chapter |-> current - 1, text |-> Slice(state.chapters[current - 1].content, SummaryLen)]
       ELSE NoPrev

\* The update returned without the chapters that hold the new text.
write_chapter_NoStore(state, response) ==
    LET current == state.current_chapter
    IN IF current > len_chapters(state) THEN Return([status |-> "all_chapters_written"])
       ELSE IF current \notin DOMAIN state.chapters THEN Raise("KeyError")
       ELSE IF response.failed THEN Raise("GenerationError")
       ELSE Return([current_chapter |-> next_chapter(current),
                    status |-> chapter_status(next_chapter(current), len_chapters(state))])

write_chapter(state, response) ==
    LET current == state.current_chapter
    IN IF current > len_chapters(state) THEN Return([status |-> "all_chapters_written"])
       ELSE IF current \notin DOMAIN state.chapters THEN Raise("KeyError")
       ELSE IF response.failed THEN Raise("GenerationError")
       ELSE Return([chapters |-> [state.chapters EXCEPT ![current].content = response.text],
                    current_chapter |-> next_chapter(current),
                    status |-> chapter_status(next_chapter(current), len_chapters(state))])

\* The dict write_chapter was given, as it is after the call.
\* state["chapters"].copy() copies the outer dict only: updated_chapters
\* and state["chapters"] share the inner dict of every chapter, and the
\* assignment to updated_chapters[current]["content"] writes into it.
write_chapter_input_after(state, response) ==
    IF write_chapter(state, response).exc = "none" /\ state.current_chapter <= len_chapters(state)
    THEN [state EXCEPT !.chapters[state.current_chapter].content = response.text]
    ELSE state

review_and_edit(state, response) ==
    IF response.failed THEN Raise("GenerationError")
    ELSE Return([feedback |-> response.text, status |-> "reviewed"])

\* title.replace(' ', '_')
replace_spaces(title) == [i \in 1..Len(title) |-> IF title[i] = " " THEN "_" ELSE title[i]]

FeedbackSuffix == <<"_", "f", "e", "e", "d", "b", "a", "c", "k", ".", "t", "x", "t">>
DocxSuffix == <<".", "d", "o", "c", "x">>

\* write_ok: whether the file system accepts the file.
export_feedback(state, write_ok) ==
    LET feedback_path == replace_spaces(state.title) \o FeedbackSuffix
    IN IF ~write_ok THEN Raise("OSError")
       ELSE Return([feedback_path |-> feedback_path, status |-> "feedback_exported"])

export_book(state, write_ok) ==
    LET doc_path == replace_spaces(state.title) \o DocxSuffix
    IN IF ~write_ok THEN Raise("OSError")
       ELSE Return([export_path |-> doc_path, status |-> "exported"])

(***************************************************************************)
(* router                                                                  *)
(***************************************************************************)
END == "__end__"

status_map ==
    [start |-> "get_book_info",
     book_info_collected |-> "create_outline",
     outline_created |-> "write_chapter",
     chapter_written |-> "write_chapter",
     all_chapters_written |-> "review_and_edit",
     reviewed |-> "export_feedback",
     feedback_exported |-> "export_book",
     exported |-> END]

\* The table with all_chapters_written sent back to write_chapter.
router_Rewrite(state) ==
    Get([status_map EXCEPT !.all_chapters_written = "write_chapter"], state.status, END)

\* A status that is not in the table sent to the entry node.
router_Restart(state) == Get(status_map, state.status, "get_book_info")

router(state) == Get(status_map, state.status, END)

(***************************************************************************)
(* Inputs and generator outputs that are explored                          *)
(***************************************************************************)
\* (custom_theme, custom_genre, custom_audience) as the front-end passes
\* them: all left empty, or all filled in.
Inputs == { <<<<>>, "", "">>, <<<<"S", "o", "l", "a", "r", " ", "P", "a", "n", "e", "l", "s">>, "Tecnico", "Estudantes">> }

\* Titles the generator proposes.
GenTitles == { <<"A", ":", " ", "T", "e", "s", "t", "?">> }

InfoDocs ==
    {PyDict([title |-> t]) : t \in GenTitles}
        \cup {PyDict([titulo |-> t]) : t \in GenTitles}
        \cup {PyList(<<>>), PyInt(0), PyNone}

\* How far a chapter_number of the generator is from the position of its
\* entry: numbers that repeat, skip or start at 0 are all produced.
Drift == {-1, 0, 1}

\* At most MaxDrifted entries of one list carry a number that differs from
\* their position.
Drifts(n) == {ds \in [1..n -> Drift] : Cardinality({i \in 1..n : ds[i] # 0}) <= MaxDrifted}

GenLists ==
    UNION { { [i \in 1..n |-> Item(i + ds[i], "gen", i)] : ds \in Drifts(n) } : n \in 0..MaxOutline }

OutlineDocs ==
    {PyList(l) : l \in GenLists}
        \cup {PyList(<<PyInt(1)>>),
              PyList(<<PyDict([chapter_title |-> <<"gen", 1>>])>>),
              PyDict([chapters |-> 0]),
              PyInt(0), PyNone}

Texts(docs) == PlainTexts \cup UNION {Wrappings(d) : d \in docs}

Responses(texts) == [failed : BOOLEAN, text : texts]

\* Free text as write_chapter and review_and_edit receive it.
FreeTexts == {"", "texto"}

(***************************************************************************)
(* The compiled graph and main()                                           *)
(***************************************************************************)
Nodes == {"get_book_info", "create_outline", "write_chapter",
          "review_and_edit", "export_feedback", "export_book"}

VARIABLES
    pc,               \* where main() is: "idle", "running", "returned", "crashed"
    state,            \* the channel values of the running graph
    checkpoint,       \* what the MemorySaver holds for thread "1"
    next_node,        \* the node the engine runs next, or END
    result,           \* the value main() returned
    executed,         \* per node, how often this run invoked it
    fault,            \* the node that raised in this run, and the exception
    lost_checkpoint,  \* what the MemorySaver held when the process died
    generated,        \* the free texts the generator returned in this run, in order
    ui                \* what the front-end showed for the returned value

vars == <<pc, state, checkpoint, next_node, result, executed, fault, lost_checkpoint, generated, ui>>

NoCheckpoint == [saved |-> FALSE, channel_values |-> EmptyDict]
Saved(values) == [saved |-> TRUE, channel_values |-> values]

NoFault == [node |-> "none", exc |-> "none"]

RECURSIVE Sum(_, _)
Sum(f, S) == IF S = {} THEN 0 ELSE LET x == CHOOSE y \in S : TRUE IN f[x] + Sum(f, S \ {x})

\* Stage executions of the current run.
Steps == Sum(executed, Nodes)

\* initial_state = BookState(status="start") plus the non-empty arguments
initial_state(custom_theme, custom_genre, custom_audience) ==
    [k \in {"status"} \cup (IF custom_theme # <<>> THEN {"theme"} ELSE {})
                      \cup (IF custom_genre # "" THEN {"genre"} ELSE {})
                      \cup (IF custom_audience # "" THEN {"target_audience"} ELSE {}) |->
        CASE k = "status" -> "start"
          [] k = "theme" -> custom_theme
          [] k = "genre" -> custom_genre
          [] k = "target_audience" -> custom_audience]

\* The handler letting the exception through to the caller.
main_except_Reraise(e) == [pc |-> "raised", result |-> EmptyDict]

\* except Exception as e: return {"status": "error", "message": str(e)}
main_except(e) == [pc |-> "returned", result |-> [status |-> "error", message |-> e]]

\* main() is called: a new graph with a new MemorySaver is built and the
\* stream starts at the entry point with the initial state.
Main_Start ==
    /\ pc \in {"idle", "crashed"}
    /\ \E args \in Inputs :
          /\ state' = initial_state(args[1], args[2], args[3])
          /\ checkpoint' = Saved(state')
    /\ pc' = "running"
    /\ next_node' = "get_book_info"
    /\ result' = EmptyDict
    /\ executed' = [n \in Nodes |-> 0]
    /\ fault' = NoFault
    /\ lost_checkpoint' = NoCheckpoint
    /\ generated' = <<>>
    /\ ui' = "none"

\* response.text as write_chapter (for chapter c) and review_and_edit (c = 0)
\* received it, appended when the node returned an update made from it.
Generated(node, c, response, outcome) ==
    IF outcome.exc = "none" /\ ~response.failed /\ DOMAIN outcome.updates # {"status"}
    THEN Append(generated, [node |-> node, chapter |-> c, text |-> response.text])
    ELSE generated

\* One iteration of book_agent.stream: the node runs, its update is merged
\* into the channels, the checkpoint is saved and router picks the next
\* node; an exception of the node unwinds to the handler of main().
RunNode(node, outcome) ==
    /\ executed' = [executed EXCEPT ![node] = @ + 1]
    /\ IF outcome.exc = "none"
       THEN /\ state' = Merge(state, outcome.updates)
            /\ checkpoint' = Saved(state')
            /\ next_node' = router(state')
            /\ UNCHANGED <<pc, result, fault>>
       ELSE /\ pc' = main_except(outcome.exc).pc
            /\ result' = main_except(outcome.exc).result
            /\ fault' = [node |-> node, exc |-> outcome.exc]
            /\ UNCHANGED <<state, checkpoint, next_node>>
    /\ UNCHANGED <<lost_checkpoint, ui>>

GetBookInfo ==
    /\ pc = "running"
    /\ next_node = "get_book_info"
    /\ Steps < MaxSteps
    /\ \E response \in Responses(Texts(InfoDocs)) :
          /\ RunNode("get_book_info", get_book_info(state, response))
          /\ UNCHANGED generated

CreateOutline ==
    /\ pc = "running"
    /\ next_node = "create_outline"
    /\ Steps < MaxSteps
    /\ \E response \in Responses(Texts(OutlineDocs)) :
          /\ RunNode("create_outline", create_outline(state, response))
          /\ UNCHANGED generated

WriteChapter ==
    /\ pc = "running"
    /\ next_node = "write_chapter"
    /\ Steps < MaxSteps
    /\ \E response \in Responses(FreeTexts) :
          /\ RunNode("write_chapter", write_chapter(state, response))
          /\ generated' = Generated("write_chapter", state.current_chapter, response,
                                    write_chapter(state, response))

ReviewAndEdit ==
    /\ pc = "running"
    /\ next_node = "review_and_edit"
    /\ Steps < MaxSteps
    /\ \E response \in Responses(FreeTexts) :
          /\ RunNode("review_and_edit", review_and_edit(state, response))
          /\ generated' = Generated("review_and_edit", 0, response,
                                    review_and_edit(state, response))

ExportFeedback ==
    /\ pc = "running"
    /\ next_node = "export_feedback"
    /\ Steps < MaxSteps
    /\ \E write_ok \in BOOLEAN :
          /\ RunNode("export_feedback", export_feedback(state, write_ok))
          /\ UNCHANGED generated

ExportBook ==
    /\ pc = "running"
    /\ next_node = "export_book"
    /\ Steps < MaxSteps
    /\ \E write_ok \in BOOLEAN :
          /\ RunNode("export_book", export_book(state, write_ok))
          /\ UNCHANGED generated

\* The stream is exhausted: final_state = book_agent.checkpointer.get(config)
Main_Return ==
    /\ pc = "running"
    /\ next_node = END
    /\ pc' = "returned"
    /\ result' = [channel_values |-> checkpoint.channel_values]
    /\ UNCHANGED <<state, checkpoint, next_node, executed, fault, lost_checkpoint, generated, ui>>

\* main.py, the "Gerar Livro" handler after main() returned:
\* book_path = result["channel_values"]["export_path"], then the download
\* button when book_path is non-empty and st.error(...) otherwise.  A key
\* that is missing raises KeyError out of the handler.
gerar_livro(res) ==
    IF "channel_values" \notin DOMAIN res THEN "KeyError"
    ELSE IF "export_path" \notin DOMAIN res.channel_values THEN "KeyError"
    ELSE IF res.channel_values.export_path # <<>> THEN "download"
    ELSE "error_message"

Gerar_Livro ==
    /\ pc = "returned"
    /\ ui = "none"
    /\ ui' = gerar_livro(result)
    /\ UNCHANGED <<pc, state, checkpoint, next_node, result, executed, fault, lost_checkpoint, generated>>

\* The process dies while the graph runs; the MemorySaver and the channel
\* values live in its memory.
Crash ==
    /\ pc = "running"
    /\ pc' = "crashed"
    /\ lost_checkpoint' = checkpoint
    /\ state' = EmptyDict
    /\ checkpoint' = NoCheckpoint
    /\ next_node' = END
    /\ UNCHANGED <<result, executed, fault, generated, ui>>

Init ==
    /\ pc = "idle"
    /\ state = EmptyDict
    /\ checkpoint = NoCheckpoint
    /\ next_node = END
    /\ result = EmptyDict
    /\ executed = [n \in Nodes |-> 0]
    /\ fault = NoFault
    /\ lost_checkpoint = NoCheckpoint
    /\ generated = <<>>
    /\ ui = "none"

Next ==
    \/ Main_Start
    \/ GetBookInfo
    \/ CreateOutline
    \/ WriteChapter
    \/ ReviewAndEdit
    \/ ExportFeedback
    \/ ExportBook
    \/ Main_Return
    \/ Gerar_Livro
    \/ Crash

Spec == Init /\ [][Next]_vars

(***************************************************************************)
(* Properties                                                              *)
(***************************************************************************)
StatusOrder ==
    <<"start", "book_info_collected", "outline_created", "chapter_written",
      "all_chapters_written", "reviewed", "feedback_exported", "exported">>

Rank(status) == CHOOSE i \in 1..Len(StatusOrder) : StatusOrder[i] = status

\* A node was invoked in this step and returned its update.
NodeReturned == pc = "running" /\ executed' # executed /\ fault' = NoFault

\* No exception left a node because of what the generator returned or of
\* the file system: the remote call and the writes all succeeded.
ExternalFaults == {"GenerationError", "OSError"}

\* C1: every stage execution moves status strictly forward in the fixed
\* order, except that write_chapter run from chapter_written may leave it
\* at chapter_written.
C1_StatusForward ==
    [][NodeReturned =>
          \/ Rank(state'.status) > Rank(state.status)
          \/ /\ state.status = "chapter_written"
             /\ state'.status = "chapter_written"
             /\ next_node = "write_chapter"]_vars

\* The chapter loop has gone round: write_chapter ran again from
\* chapter_written and left chapter_written.
C1_Witness ==
    /\ pc = "running"
    /\ state.status = "chapter_written"
    /\ executed["write_chapter"] >= 2

\* C2: whatever the generator returns, main returns with status exported
\* after at most len(chapters) + 5 stage executions.
C2_ReachesExported ==
    (pc = "returned" /\ fault.exc \notin ExternalFaults) =>
        /\ "channel_values" \in DOMAIN result
        /\ result.channel_values.status = "exported"
        /\ Steps <= len_chapters(result.channel_values) + 5

\* C3: in a run that reached END, write_chapter was executed exactly
\* len(chapters) times and every other stage at most once.
C3_StageCounts ==
    (pc = "returned" /\ fault = NoFault) =>
        /\ executed["write_chapter"] = len_chapters(result.channel_values)
        /\ \A n \in Nodes \ {"write_chapter"} : executed[n] <= 1

\* A run reached END with more chapters than the minimum.
C3_Witness ==
    /\ pc = "returned"
    /\ fault = NoFault
    /\ result.channel_values.status = "exported"
    /\ executed["write_chapter"] > MinChapters

\* C4: once create_outline has run, the keys of chapters are exactly
\* 1..len(outline).
C4_KeysContiguous ==
    "outline" \in DOMAIN state => DOMAIN state.chapters = 1..Len(state.outline)

\* C5: create_outline always yields at least 5 chapters.
C5_AtLeastFive ==
    "chapters" \in DOMAIN state => len_chapters(state) >= MinChapters

\* C6: get_book_info and create_outline never raise because of the text
\* the generator returned.
C6_NoAbortOnOutput ==
    fault.node \in {"get_book_info", "create_outline"} => fault.exc = "GenerationError"

\* C7: an exception of any stage ends main() with the returned value
\* {"status": "error", "message": ...}; main never raises.
C7_ErrorReturned ==
    /\ pc # "raised"
    /\ fault # NoFault =>
          /\ pc = "returned"
          /\ DOMAIN result = {"status", "message"}
          /\ result.status = "error"
          /\ result.message = fault.exc

\* The generator failed in write_chapter after a chapter was written.
C7_Witness ==
    /\ pc = "returned"
    /\ fault = [node |-> "write_chapter", exc |-> "GenerationError"]
    /\ executed["write_chapter"] >= 2
    /\ result.status = "error"

\* C8: when a stage fails after chapters were written, the result names
\* the failed stage and the status of the last checkpoint and holds the
\* chapters written so far.
C8_FailureReport ==
    (pc = "returned" /\ fault # NoFault /\ executed["write_chapter"] >= 2) =>
        /\ \E k \in DOMAIN result : result[k] = fault.node
        /\ \E k \in DOMAIN result : result[k] = checkpoint.channel_values.status
        /\ \/ "chapters" \in DOMAIN result
           \/ "channel_values" \in DOMAIN result

\* C9: a run started after a crash begins in the status of the last
\* checkpoint and continues with the stage that follows it.
C9_ResumeAfterCrash ==
    [][(pc = "crashed" /\ pc' = "running") =>
          /\ state'.status = lost_checkpoint.channel_values.status
          /\ next_node' = router(lost_checkpoint.channel_values)]_vars

\* C10: current_chapter is at most len(chapters) + 1.
C10_CursorBound ==
    "current_chapter" \in DOMAIN state => state.current_chapter <= len_chapters(state) + 1

\* The cursor stands one past the last chapter.
C10_Witness ==
    /\ pc = "running"
    /\ "current_chapter" \in DOMAIN state
    /\ state.current_chapter = len_chapters(state) + 1
    /\ executed["write_chapter"] >= MinChapters

\* The engine invokes write_chapter in this step with the cursor at c and
\* the generator does not fail.
WriteChapterCalled(c) ==
    /\ pc = "running"
    /\ next_node = "write_chapter"
    /\ executed'["write_chapter"] = executed["write_chapter"] + 1
    /\ state.current_chapter = c
    /\ fault'.exc # "GenerationError"

\* C11: write_chapter invoked with current_chapter = c <= len(chapters)
\* puts the generated text into chapters[c].content, returns
\* current_chapter = c + 1 and status chapter_written when
\* c + 1 <= len(chapters), all_chapters_written when c = len(chapters).
C11_WriteChapterStep ==
    [][\A c \in 1..(MaxOutline + 1) :
          (WriteChapterCalled(c) /\ c <= len_chapters(state)) =>
              /\ fault' = NoFault
              /\ state'.chapters =
                    [state.chapters EXCEPT ![c].content = generated'[Len(generated')].text]
              /\ state'.current_chapter = c + 1
              /\ state'.current_chapter <= len_chapters(state) + 1
              /\ state'.status = (IF c + 1 <= len_chapters(state)
                                  THEN "chapter_written" ELSE "all_chapters_written")]_vars

\* Every free text the generator returned in this run was non-empty.
AllTextsNonEmpty == \A i \in 1..Len(generated) : generated[i].text # ""

\* The chapters for which write_chapter obtained a text in this run.
Written == {generated[i].chapter : i \in {j \in 1..Len(generated) : generated[j].node = "write_chapter"}}

\* C12: in a run that reaches exported with the generator returning
\* non-empty text throughout, export_path is set, feedback is non-empty and
\* every chapter has non-empty content; and whenever review_and_edit or
\* export_book is about to run, every chapter has been written.
C12_ExportedComplete ==
    /\ (pc \in {"running", "returned"} /\ state.status = "exported" /\ AllTextsNonEmpty) =>
          /\ "export_path" \in DOMAIN state
          /\ state.export_path # <<>>
          /\ state.feedback # ""
          /\ \A k \in DOMAIN state.chapters : state.chapters[k].content # ""
    /\ (pc = "running" /\ next_node \in {"review_and_edit", "export_book"}) =>
          /\ Written = DOMAIN state.chapters
          /\ AllTextsNonEmpty => \A k \in DOMAIN state.chapters : state.chapters[k].content # ""

\* A run was exported in which every returned text was non-empty.
C12_Witness ==
    /\ pc = "returned"
    /\ fault = NoFault
    /\ result.channel_values.status = "exported"
    /\ AllTextsNonEmpty
    /\ Len(generated) = len_chapters(state) + 1

\* The stage that follows each status in the pipeline, END for any other
\* status.
NextStage(status) ==
    CASE status = "start" -> "get_book_info"
      [] status = "book_info_collected" -> "create_outline"
      [] status \in {"outline_created", "chapter_written"} -> "write_chapter"
      [] status = "all_chapters_written" -> "review_and_edit"
      [] status = "reviewed" -> "export_feedback"
      [] status = "feedback_exported" -> "export_book"
      [] OTHER -> END

\* Status values outside the table.
OtherStatuses == {"error", "", "Start", "done"}

\* C13: router maps each of the eight known statuses to its fixed next
\* stage and any other status to END; the node the engine runs next is
\* the one router gives for the current status.
C13_RouterTotal ==
    /\ \A status \in DOMAIN status_map \cup OtherStatuses :
          router([status |-> status]) = NextStage(status)
    /\ Cardinality(DOMAIN status_map) = 8
    /\ pc = "running" =>
          /\ next_node = NextStage(state.status)
          /\ router(state) = next_node
          /\ \A status \in OtherStatuses : router([state EXCEPT !.status = status]) = END

\* The table was followed to its end: the status is exported and the
\* engine stops.
C13_Witness ==
    /\ pc = "running"
    /\ state.status = "exported"
    /\ next_node = END

\* Texts that are not JSON: empty, prose, fenced prose, prose around a
\* document.
NonJsonTexts == PlainTexts \cup {<<Prose, d>> : d \in InfoDocs} \cup {<<Prose, d, Prose>> : d \in InfoDocs}

\* C14: where get_book_info is about to run, any text that is not JSON
\* makes it return title = "Livro sobre " + theme and status
\* book_info_collected, with theme, genre and target_audience taken from
\* the state or set to their defaults.
C14_TitleFallback ==
    (pc = "running" /\ next_node = "get_book_info") =>
        \A text \in NonJsonTexts :
            LET theme == IF "theme" \in DOMAIN state THEN state.theme ELSE DefaultTheme
                out == get_book_info(state, [failed |-> FALSE, text |-> text])
            IN /\ out.exc = "none"
               /\ DOMAIN out.updates = {"theme", "genre", "target_audience", "title", "status"}
               /\ out.updates.title = <<"L", "i", "v", "r", "o", " ", "s", "o", "b", "r", "e", " ">> \o theme
               /\ out.updates.status = "book_info_collected"
               /\ out.updates.theme = theme
               /\ out.updates.genre = (IF "genre" \in DOMAIN state THEN state.genre ELSE "Ficcao")
               /\ out.updates.target_audience =
                     (IF "target_audience" \in DOMAIN state THEN state.target_audience ELSE "Adultos")

\* get_book_info has run with a theme given by the caller and the title
\* is the fallback made from that theme.
C14_Witness ==
    /\ pc = "running"
    /\ state.status = "book_info_collected"
    /\ state.theme # DefaultTheme
    /\ state.title = <<"L", "i", "v", "r", "o", " ", "s", "o", "b", "r", "e", " ">> \o state.theme

\* Characters a file name must not hold.
InvalidChars == {"\\", "/", ":", "*", "?", "\"", "<", ">", "|"}

Chars(str) == {str[i] : i \in 1..Len(str)}

\* C15: when export_feedback or export_book is about to run, the base file
\* name made from the title holds none of the invalid characters, and so
\* do the paths the two stages return.
C15_FilenameClean ==
    /\ (pc = "running" /\ next_node \in {"export_feedback", "export_book"}) =>
          Chars(replace_spaces(state.title)) \cap InvalidChars = {}
    /\ (pc = "running" /\ "feedback_path" \in DOMAIN state) =>
          Chars(state.feedback_path) \cap InvalidChars = {}
    /\ (pc = "running" /\ "export_path" \in DOMAIN state) =>
          Chars(state.export_path) \cap InvalidChars = {}

\* C16: write_chapter leaves the state it was given unchanged; the new
\* content is only in the update it returns.
C16_InputUnchanged ==
    [][\A c \in 1..(MaxOutline + 1) :
          (WriteChapterCalled(c) /\ fault' = NoFault /\ generated' # generated) =>
              LET response == [failed |-> FALSE, text |-> generated'[Len(generated')].text]
              IN /\ write_chapter(state, response).updates.chapters[c].content = response.text
                 /\ write_chapter_input_after(state, response) = state]_vars

\* C17: within a run, a step of the engine or the return of main() leaves
\* the content of every chapter that write_chapter has written as it was.
C17_ContentKept ==
    [][(pc = "running" /\ pc' \in {"running", "returned"}) =>
          \A k \in Written :
              /\ k \in DOMAIN state'.chapters
              /\ state'.chapters[k].content = state.chapters[k].content
              /\ "channel_values" \in DOMAIN result' =>
                    result'.channel_values.chapters[k].content = state.chapters[k].content]_vars

\* The run is at exported and the text written first is still in place.
C17_Witness ==
    /\ pc = "running"
    /\ state.status = "exported"
    /\ Len(generated) > MinChapters
    /\ generated[1].node = "write_chapter"
    /\ generated[1].text # ""
    /\ state.chapters[generated[1].chapter].content = generated[1].text

\* The text the generator returned for chapter j in this run.
TextOf(j) ==
    generated[CHOOSE i \in 1..Len(generated) :
                 generated[i].node = "write_chapter" /\ generated[i].chapter = j].text

\* C18: when write_chapter writes chapter k, exactly the chapters 1..k-1
\* have been written and hold their text, every other chapter is still
\* empty, after the step exactly 1..k are written, and for k > 1 the
\* summary in the prompt is cut from the content of chapter k-1.
C18_AscendingOrder ==
    [][\A k \in 1..(MaxOutline + 1) :
          (WriteChapterCalled(k) /\ generated' # generated) =>
              /\ Written = 1..(k - 1)
              /\ \A j \in 1..(k - 1) : state.chapters[j].content = TextOf(j)
              /\ \A j \in DOMAIN state.chapters \ (1..(k - 1)) : state.chapters[j].content = ""
              /\ Written' = 1..k
              /\ k > 1 =>
                    /\ prev_content(state).text.text = state.chapters[k - 1].content
                    /\ prev_content(state).text.upto = 500
                    /\ state.chapters[k - 1].content # "" => prev_content(state).chapter = k - 1]_vars

\* The second chapter has been written after a first one with text.
C18_Witness ==
    /\ pc = "running"
    /\ state.status = "chapter_written"
    /\ Written = {1, 2}
    /\ state.chapters[1].content # ""
    /\ state.current_chapter = 3

\* C19: whenever the engine is about to invoke write_chapter,
\* 1 <= current_chapter <= len(chapters) and current_chapter is a key of
\* chapters.
C19_CursorIsKey ==
    (pc = "running" /\ next_node = "write_chapter") =>
        /\ 1 <= state.current_chapter
        /\ state.current_chapter <= len_chapters(state)
        /\ state.current_chapter \in DOMAIN state.chapters

\* C20: every value main() returns has channel_values.export_path, the
\* path of the file after an exported run and empty otherwise, so the
\* front-end shows the download or its error message and never fails
\* with an exception.
C20_ExportPathReadable ==
    /\ pc = "returned" =>
          /\ "channel_values" \in DOMAIN result
          /\ "export_path" \in DOMAIN result.channel_values
          /\ result.channel_values.status # "exported" => result.channel_values.export_path = <<>>
    /\ ui \in {"none", "download", "error_message"}
    /\ (ui # "none" /\ fault # NoFault) => ui = "error_message"

====
